---- MODULE Spec2Model ----
(***************************************************************************)
(* Batch CTA replacer: the batch orchestrator process_videos, the naming   *)
(* and matching helpers of video_processor.py, and the worker/progress     *)
(* bridge of main.py (run_process, process_thread, ProgressWindow).        *)
(*                                                                         *)
(* Python strings are modelled as sequences of one-character strings, so   *)
(* that split, join, lower, endswith and the like are computed as the      *)
(* code computes them.                                                     *)
(***************************************************************************)
EXTENDS Integers, Sequences, FiniteSets, TLC

(***************************************************************************)
(* Bounds of the model.                                                    *)
(***************************************************************************)
\* longest list of main videos the user selects
MaxVideos == 2
\* most files already present in an output folder when the program starts
MaxPre == 2
\* largest width and height calculate_aspect_ratio is applied to on its own
MaxDim == 16
\* most '_'-separated segments of a base name generate_new_filename is applied to
MaxSegments == 3
\* longest run of successive candidates of the collision loop an output folder holds
MaxChain == 4
\* longest overlay, in seconds, the command is built for on its own
MaxOverlay == 4

\* Python's None; no string of the model has a character "None"
None == <<"None">>

(***************************************************************************)
(* str helpers                                                             *)
(***************************************************************************)
UpperLetters ==
  <<"A","B","C","D","E","F","G","H","I","J","K","L","M",
    "N","O","P","Q","R","S","T","U","V","W","X","Y","Z">>

LowerLetters ==
  <<"a","b","c","d","e","f","g","h","i","j","k","l","m",
    "n","o","p","q","r","s","t","u","v","w","x","y","z">>

Digits == <<"0","1","2","3","4","5","6","7","8","9">>

IndexIn(c, tab) == CHOOSE i \in 1..Len(tab) : tab[i] = c

IsIn(c, tab) == \E i \in 1..Len(tab) : tab[i] = c

\* str.lower()
lower(s) ==
  [i \in 1..Len(s) |->
     IF IsIn(s[i], UpperLetters) THEN LowerLetters[IndexIn(s[i], UpperLetters)] ELSE s[i]]

\* str.upper()
upper(s) ==
  [i \in 1..Len(s) |->
     IF IsIn(s[i], LowerLetters) THEN UpperLetters[IndexIn(s[i], LowerLetters)] ELSE s[i]]

\* str.isdigit()
isdigit(s) == Len(s) > 0 /\ \A i \in 1..Len(s) : IsIn(s[i], Digits)

\* str.endswith(suffix)
endswith(s, suffix) ==
  /\ Len(suffix) <= Len(s)
  /\ SubSeq(s, Len(s) - Len(suffix) + 1, Len(s)) = suffix

\* sub in s
contains(s, sub) ==
  \E i \in 0..(Len(s) - Len(sub)) : SubSeq(s, i + 1, i + Len(sub)) = sub

\* str.replace(old, new) for a one-character old; new is a string
RECURSIVE replace(_, _, _)
replace(s, old, new) ==
  IF s = <<>> THEN <<>>
  ELSE (IF Head(s) = old THEN new ELSE <<Head(s)>>) \o replace(Tail(s), old, new)

\* re.sub('[chars]', '', s): drop every character of the class
RECURSIVE removeChars(_, _)
removeChars(s, chars) ==
  IF s = <<>> THEN <<>>
  ELSE (IF Head(s) \in chars THEN <<>> ELSE <<Head(s)>>) \o removeChars(Tail(s), chars)

\* str.split(sep) for a one-character sep: empty fields are kept
RECURSIVE split(_, _)
split(s, sep) ==
  IF \A i \in 1..Len(s) : s[i] # sep THEN <<s>>
  ELSE LET k == CHOOSE i \in 1..Len(s) :
                  s[i] = sep /\ \A j \in 1..(i - 1) : s[j] # sep
       IN  <<SubSeq(s, 1, k - 1)>> \o split(SubSeq(s, k + 1, Len(s)), sep)

\* str.split() without arguments: split on runs of whitespace, no empty fields
splitWords(s) == SelectSeq(split(s, " "), LAMBDA w : w # <<>>)

\* sep.join(parts)
RECURSIVE join(_, _)
join(parts, sep) ==
  IF parts = <<>> THEN <<>>
  ELSE IF Len(parts) = 1 THEN parts[1]
  ELSE parts[1] \o sep \o join(Tail(parts), sep)

\* str(n) of a non-negative integer
RECURSIVE str(_)
str(n) == IF n < 10 THEN <<Digits[n + 1]>> ELSE str(n \div 10) \o <<Digits[(n % 10) + 1]>>

\* os.path.basename
basename(p) == LET parts == split(p, "/") IN parts[Len(parts)]

\* os.path.splitext: split at the last dot that is not a leading dot
splitext(p) ==
  LET dots == {i \in 1..Len(p) : p[i] = "." /\ \E j \in 1..(i - 1) : p[j] # "."}
  IN  IF dots = {} THEN <<p, <<>>>>
      ELSE LET d == CHOOSE i \in dots : \A j \in dots : j <= i
           IN  <<SubSeq(p, 1, d - 1), SubSeq(p, d, Len(p))>>

\* math.gcd
RECURSIVE gcd(_, _)
gcd(a, b) == IF b = 0 THEN a ELSE gcd(b, a % b)

(***************************************************************************)
(* video_processor.py: pure helpers                                        *)
(***************************************************************************)
mp4 == <<".","m","p","4">>

\* calculate_aspect_ratio: "w:h" in lowest terms; 0x0 raises ZeroDivisionError
ZeroDivisionError == <<"ZeroDivisionError">>

\* variant: the dimensions are not divided by their gcd
calculate_aspect_ratio_unreduced(width, height) ==
  str(width) \o <<":">> \o str(height)

calculate_aspect_ratio(width, height) ==
  LET g == gcd(width, height)
  IN  IF g = 0 THEN ZeroDivisionError
      ELSE str(width \div g) \o <<":">> \o str(height \div g)

\* variant: the aspect-ratio suffix is not tested
cta_file_matches_any_ratio(file, cta_name, aspect_ratio) ==
  contains(replace(lower(file), " ", <<>>), replace(lower(cta_name), " ", <<>>))

\* variant: the names are compared with their spaces left in
cta_file_matches_unstripped(file, cta_name, aspect_ratio) ==
  LET aspect_suffix == replace(aspect_ratio, ":", <<"x">>)
  IN  /\ endswith(lower(file), <<"_">> \o aspect_suffix \o mp4)
      /\ contains(lower(file), lower(cta_name))

\* the test of one directory entry in find_cta_video
cta_file_matches(file, cta_name, aspect_ratio) ==
  LET aspect_suffix == replace(aspect_ratio, ":", <<"x">>)
  IN  /\ endswith(lower(file), <<"_">> \o aspect_suffix \o mp4)
      /\ contains(replace(lower(file), " ", <<>>), replace(lower(cta_name), " ", <<>>))

\* find_cta_video: first matching entry in listing order, or None
find_cta_video(files, cta_name, aspect_ratio) ==
  LET hits == {i \in 1..Len(files) : cta_file_matches(files[i], cta_name, aspect_ratio)}
  IN  IF hits = {} THEN None
      ELSE files[CHOOSE i \in hits : \A j \in hits : i <= j]

\* sanitize_filename
UnsafeChars == {"<", ">", ":", "\"", "/", "\\", "|", "?", "*"}

sanitize_filename(filename) == removeChars(filename, UnsafeChars)

Markers == {<<"D","N">>, <<"M","N">>, <<"S","N">>, <<"P","N">>}

\* generate_new_filename
cutoff_index(segments) ==
  LET stops == {i \in 1..Len(segments) : segments[i] \in Markers \/ Len(segments[i]) = 2}
  IN  IF stops = {} THEN Len(segments) + 1
      ELSE CHOOSE i \in stops : \A j \in stops : i <= j

\* variant: the first duration marker before the cutoff is remembered
length_segment_first(segments) ==
  LET marks == {i \in 1..(cutoff_index(segments) - 1) :
                   endswith(segments[i], <<"s">>)
                   /\ isdigit(SubSeq(segments[i], 1, Len(segments[i]) - 1))}
  IN  IF marks = {} THEN None
      ELSE segments[CHOOSE i \in marks : \A j \in marks : i <= j]

length_segment(segments) ==
  LET marks == {i \in 1..(cutoff_index(segments) - 1) :
                   endswith(segments[i], <<"s">>)
                   /\ isdigit(SubSeq(segments[i], 1, Len(segments[i]) - 1))}
  IN  IF marks = {} THEN None
      ELSE segments[CHOOSE i \in marks : \A j \in marks : j <= i]

generate_new_filename(base_name, lang_code, cta_code, aspect_ratio) ==
  LET segments == split(base_name, "_")
      kept     == SubSeq(segments, 1, cutoff_index(segments) - 1)
      len_seg  == length_segment(segments)
      s1       == kept \o <<lang_code, cta_code>>
      s2       == IF len_seg # None /\ len_seg # <<>> THEN Append(s1, len_seg) ELSE s1
      s3       == IF \E i \in 1..Len(s2) : replace(s2[i], "x", <<":">>) = aspect_ratio
                  THEN s2
                  ELSE Append(s2, replace(aspect_ratio, ":", <<"x">>))
  IN  sanitize_filename(join(s3, <<"_">>) \o mp4)

\* lang_code = language[:2].upper()
lang_code_of(language) == upper(SubSeq(language, 1, IF Len(language) < 2 THEN Len(language) ELSE 2))

\* cta_code = ''.join(word[0].upper() for word in cta_name.split())
cta_code_of(cta_name) ==
  LET words == splitWords(cta_name)
  IN  upper([i \in 1..Len(words) |-> words[i][1]])

(***************************************************************************)
(* The external engine's probe mode and get_video_info                     *)
(***************************************************************************)
\* raised by subprocess.check_output when ffprobe exits non-zero
CalledProcessError == <<"CalledProcessError">>

ValueError == <<"ValueError">>

\* int(s) / float(s) of a decimal literal; any other text raises ValueError
parses(s) == isdigit(s)

RECURSIVE number(_)
number(s) ==
  IF s = <<>> THEN 0
  ELSE 10 * number(SubSeq(s, 1, Len(s) - 1)) + (IndexIn(s[Len(s)], Digits) - 1)

\* the frame-rate normalisation of get_video_info, as a pair <<num, den>>
normalize_framerate(fr_str) ==
  IF contains(fr_str, <<"/">>)
  THEN LET nd == split(fr_str, "/")
       IN  IF Len(nd) = 2 /\ parses(nd[1]) /\ parses(nd[2])
           THEN IF number(nd[2]) # 0 THEN <<number(nd[1]), number(nd[2])>>
                ELSE <<number(nd[1]), 1>>
           \* except: float(fr_str.split('/')[0]), which may raise again
           ELSE IF parses(nd[1]) THEN <<number(nd[1]), 1>>
           ELSE ValueError
  ELSE IF parses(fr_str) THEN <<number(fr_str), 1>>
  ELSE <<30, 1>>

\* get_video_info on the text ffprobe printed (or the error it raised):
\* <<width, height, framerate>> or None
get_video_info(probe_out) ==
  IF probe_out = CalledProcessError THEN None
  ELSE LET parts == split(probe_out, ",")
       IN  IF Len(parts) < 3 THEN None
           ELSE IF ~parses(parts[1]) \/ ~parses(parts[2]) THEN None
           ELSE IF normalize_framerate(parts[3]) = ValueError THEN None
           ELSE <<number(parts[1]), number(parts[2]), normalize_framerate(parts[3])>>

(***************************************************************************)
(* video_processor.py: replace_end_of_video_keep_audio, the command it     *)
(* builds.  Arguments are strings; duration and overlay_duration are       *)
(* floats with integral values.                                            *)
(***************************************************************************)
\* str() of a float with an integral value
repr_float(n) == str(n) \o <<".","0">>

\* str(framerate); a framerate that is no whole number is written as its
\* fraction, which stands for the digits of the float
str_framerate(framerate) ==
  IF framerate[1] % framerate[2] = 0
  THEN repr_float(framerate[1] \div framerate[2])
  ELSE str(framerate[1]) \o <<"/">> \o str(framerate[2])

\* overlay_start = max(0, duration - overlay_duration), as the f-string prints
\* it: max returns the int 0 unless the difference is greater
overlay_start(duration, overlay_duration) ==
  IF duration - overlay_duration > 0
  THEN repr_float(duration - overlay_duration)
  ELSE <<"0">>

filter_complex(start, overlay_duration, main_width, main_height) ==
  <<"[","0",":","v","]","s","p","l","i","t","=","2","[","v","1","]","[","v","2","]",";">>
  \o <<"[","v","1","]","t","r","i","m","=","0",":">> \o start
  \o <<",","s","e","t","p","t","s","=","P","T","S","-","S","T","A","R","T","P","T","S","[","m","a","i","n","]",";">>
  \o <<"[","v","2","]","t","r","i","m","=">> \o start
  \o <<",","s","e","t","p","t","s","=","P","T","S","-","S","T","A","R","T","P","T","S","[","b","a","s","e","]",";">>
  \o <<"[","1",":","v","]","t","r","i","m","=","0",":">> \o repr_float(overlay_duration)
  \o <<",","s","e","t","p","t","s","=","P","T","S","-","S","T","A","R","T","P","T","S",",","s","c","a","l","e","=">>
  \o str(main_width) \o <<":">> \o str(main_height)
  \o <<":","f","o","r","c","e","_","o","r","i","g","i","n","a","l","_","a","s","p","e","c","t","_","r","a","t","i","o","=","d","e","c","r","e","a","s","e",",","p","a","d","=">>
  \o str(main_width) \o <<":">> \o str(main_height)
  \o <<":","(","o","w","-","i","w",")","/","2",":","(","o","h","-","i","h",")","/","2","[","c","t","a","]",";">>
  \o <<"[","b","a","s","e","]","[","c","t","a","]","o","v","e","r","l","a","y","=","s","h","o","r","t","e","s","t","=","1","[","o","v","e","r","l","a","i","d","]",";">>
  \o <<"[","m","a","i","n","]","[","o","v","e","r","l","a","i","d","]","c","o","n","c","a","t","=","n","=","2",":","v","=","1",":","a","=","0","[","o","u","t","v","]">>

\* input-level options
input_options(use_gpu) ==
  IF use_gpu THEN <<<<"-","h","w","a","c","c","e","l">>, <<"c","u","d","a">>>> ELSE <<>>

\* variant: the GPU path also re-encodes the audio
encoder_options_with_audio(use_gpu) ==
  IF use_gpu
  THEN <<
         <<"-","c",":","v">>, <<"h","2","6","4","_","n","v","e","n","c">>,
         <<"-","p","r","e","s","e","t">>, <<"p","4">>, <<"-","q","p">>, <<"2","3">>,
         <<"-","c",":","a">>, <<"a","a","c">>>>
  ELSE <<
         <<"-","c",":","v">>, <<"l","i","b","x","2","6","4">>, <<"-","p","r","e","s","e","t">>,
         <<"m","e","d","i","u","m">>, <<"-","c","r","f">>, <<"2","3">>>>

\* encoder (output) options
encoder_options(use_gpu) ==
  IF use_gpu
  THEN <<
         <<"-","c",":","v">>, <<"h","2","6","4","_","n","v","e","n","c">>,
         <<"-","p","r","e","s","e","t">>, <<"p","4">>, <<"-","q","p">>, <<"2","3">>>>
  ELSE <<
         <<"-","c",":","v">>, <<"l","i","b","x","2","6","4">>, <<"-","p","r","e","s","e","t">>,
         <<"m","e","d","i","u","m">>, <<"-","c","r","f">>, <<"2","3">>>>

\* ffmpeg_cmd; info is what get_video_info(input_video) returned
ffmpeg_cmd(input_video, cta_video, output_video, overlay_duration, use_gpu, duration, info) ==
  <<<<"f","f","m","p","e","g">>, <<"-","y">>>>
  \o input_options(use_gpu)
  \o <<<<"-","i">>, input_video, <<"-","a","c","c","u","r","a","t","e","_","s","e","e","k">>, <<"-","i">>, cta_video>>
  \o <<<<"-","f","i","l","t","e","r","_","c","o","m","p","l","e","x">>,
       filter_complex(overlay_start(duration, overlay_duration), overlay_duration,
                      info[1], info[2]),
       <<"-","m","a","p">>, <<"[","o","u","t","v","]">>, <<"-","m","a","p">>, <<"0",":","a">>,
       <<"-","c",":","a">>, <<"c","o","p","y">>>>
  \o encoder_options(use_gpu)
  \o <<<<"-","r">>, str_framerate(info[3]), output_video>>

(***************************************************************************)
(* The files the program works on                                          *)
(***************************************************************************)
\* main videos: path and what ffprobe prints for the file
VidPromo1 ==
  [path |-> <<"i","n","/","p","r","o","m","o","_","3","0","s","_","D","N","_","v","1",".","m","p","4">>,
   probe_out |-> <<"1","9","2","0",",","1","0","8","0",",","2","5","/","1">>]

VidPromo2 ==
  [path |-> <<"i","n","/","p","r","o","m","o","_","3","0","s","_","D","N","_","v","2",".","m","p","4">>,
   probe_out |-> <<"1","9","2","0",",","1","0","8","0",",","2","5","/","1">>]

\* a file ffprobe cannot read
VidBroken ==
  [path |-> <<"i","n","/","b","r","o","k","e","n","_","1","5","s",".","m","p","4">>,
   probe_out |-> CalledProcessError]

\* a file whose video stream reports 0x0
VidEmpty ==
  [path |-> <<"i","n","/","e","m","p","t","y","_","S","N",".","m","p","4">>,
   probe_out |-> <<"0",",","0",",","0","/","0">>]

\* a portrait video whose name already carries its ratio
VidTall ==
  [path |-> <<"i","n","/","s","t","o","r","y","_","9","x","1","6","_","1","0","s",".","m","p","4">>,
   probe_out |-> <<"1","0","8","0",",","1","9","2","0",",","3","0","/","1">>]

VideoFiles == {VidPromo1, VidPromo2, VidBroken, VidEmpty, VidTall}

english == <<"e","n","g","l","i","s","h">>

french == <<"f","r","e","n","c","h">>

learn_more == <<"l","e","a","r","n","_","m","o","r","e">>

Learn_More == <<"L","e","a","r","n"," ","M","o","r","e">>

learn_more_16x9 == <<"l","e","a","r","n","_","m","o","r","e","_","1","6","x","9",".","m","p","4">>

learn_more_9x16 == <<"l","e","a","r","n","_","m","o","r","e","_","9","x","1","6",".","m","p","4">>

learn_more_plain == <<"l","e","a","r","n","_","m","o","r","e",".","m","p","4">>

LearnMore_16x9 == <<"L","e","a","r","n","M","o","r","e","_","1","6","x","9",".","m","p","4">>

\* the ratio and the extension are there once whitespace is dropped
learn_more_16x9_sp == <<"l","e","a","r","n","_","m","o","r","e","_","1","6","x","9"," ",".","m","p","4">>

notes_txt == <<"n","o","t","e","s",".","t","x","t">>

Dir(name, entries) == [name |-> name, isdir |-> TRUE, entries |-> entries]

File(name) == [name |-> name, isdir |-> FALSE, entries |-> <<>>]

\* CTA roots, as os.listdir lists them: language / CTA name / files
CatalogOne ==
  <<Dir(english, <<Dir(learn_more, <<File(learn_more_16x9)>>)>>)>>

CatalogMiss ==
  <<Dir(english, <<Dir(learn_more, <<File(learn_more_9x16), File(learn_more_plain)>>)>>)>>

CatalogTwo ==
  <<File(notes_txt),
    Dir(english, <<Dir(learn_more, <<File(learn_more_plain), File(learn_more_16x9)>>),
                   File(notes_txt)>>),
    Dir(french,  <<Dir(Learn_More, <<File(LearnMore_16x9)>>)>>)>>

CatalogSpaced ==
  <<Dir(english, <<Dir(learn_more, <<File(learn_more_16x9_sp)>>)>>),
    Dir(french,  <<>>)>>

CatalogEmpty == <<Dir(english, <<>>)>>

Catalogs == {CatalogOne, CatalogMiss, CatalogTwo, CatalogSpaced, CatalogEmpty}

\* [d for d in os.listdir(folder) if os.path.isdir(...)]
subdirs(entries) == SelectSeq(entries, LAMBDA e : e.isdir)

\* the (language, CTA) folders in the order the nested loops of process_videos
\* visit them
RECURSIVE leaf_folders(_)
leaf_folders(languages) ==
  IF languages = <<>> THEN <<>>
  ELSE LET ctas == subdirs(Head(languages).entries)
       IN  [i \in 1..Len(ctas) |->
              [language |-> Head(languages).name,
               cta_name |-> ctas[i].name,
               files    |-> [j \in 1..Len(ctas[i].entries) |-> ctas[i].entries[j].name]]]
           \o leaf_folders(Tail(languages))

\* run_process: total_ctas, summed language by language
RECURSIVE count_ctas(_)
count_ctas(languages) ==
  IF languages = <<>> THEN 0
  ELSE Len(subdirs(Head(languages).entries)) + count_ctas(Tail(languages))

(***************************************************************************)
(* State                                                                   *)
(***************************************************************************)
VARIABLES
  catalog,            \* the CTA root folder on disk
  outDirs,            \* folders <<language, cta_name>> under the output root
  outFiles,           \* files <<language, cta_name, filename>> under the output root
  button,             \* process_button: "normal" or "disabled"
  lastClick,          \* the last run_process call: what it was given and what it did
  main_videos,        \* process_thread's main_videos
  overlay_duration,   \* process_thread's overlay_duration
  total_ctas,         \* process_thread's total_ctas
  pc,                 \* where the worker thread is
  vi,                 \* index of main_video in main_videos
  leaf,               \* index of the (language, cta_name) pair in the nested loops
  main_aspect_ratio,  \* process_videos' main_aspect_ratio
  cta_video,          \* process_videos' cta_video
  output_path,        \* process_videos' output_path
  queue,              \* progress_queue
  window,             \* the ProgressWindow
  reenable,           \* root.after(100, _reenable) is pending
  emitted,            \* history: every message put on progress_queue, with its item
  received,           \* history: every message check_queue took off the queue
  jobs,               \* history: the encode jobs of this run
  lastEncode,         \* what the last replace_end_of_video_keep_audio call did
  probes,             \* history: get_video_info calls for the main video probed last
  peer,               \* a second process_videos run on the same output folder
  applied             \* a function of video_processor.py applied to arguments

vars == <<catalog, outDirs, outFiles, button, lastClick, main_videos,
          overlay_duration, total_ctas, pc, vi, leaf, main_aspect_ratio,
          cta_video, output_path, queue, window, reenable, emitted, received,
          jobs, lastEncode, probes, peer, applied>>

sideVars == <<peer, applied>>

fsVars == <<catalog, outDirs, outFiles>>

uiVars == <<button, lastClick, reenable>>

argVars == <<main_videos, overlay_duration, total_ctas>>

loopVars == <<vi, leaf, main_aspect_ratio, cta_video, output_path>>

sinkVars == <<window, received>>

windowVars == <<fsVars, uiVars, argVars, pc, loopVars, queue, sinkVars, emitted,
                jobs, lastEncode, probes, peer>>

\* queue messages: an int (the total) or a str ("progress", "done")
IntMsg(n) == [isint |-> TRUE, text |-> "", value |-> n]

StrMsg(t) == [isint |-> FALSE, text |-> t, value |-> 0]

\* the name base.mp4 with _n before the extension
Suffixed(name, n) == splitext(name)[1] \o <<"_">> \o str(n) \o mp4

\* the name process_videos derives for VidPromo1 under english/learn_more
SeedName ==
  generate_new_filename(splitext(basename(VidPromo1.path))[1],
                        lang_code_of(english), cta_code_of(learn_more),
                        <<"1","6",":","9">>)

\* an output folder that already holds base.mp4, base_1.mp4 .. base_(k-1).mp4
PrePopulated(k) ==
  IF k = 0 THEN {}
  ELSE {<<english, learn_more, SeedName>>}
       \cup {<<english, learn_more, Suffixed(SeedName, i)>> : i \in 1..(k - 1)}

NoEncode ==
  [path |-> <<>>, probed |-> FALSE, ran |-> FALSE, returncode |-> 0,
   exists_after |-> FALSE, logged |-> "none"]

\* run_process has not been called
NoClick == [result |-> "none", selected |-> 0, cta_folder |-> FALSE,
            output_folder |-> FALSE, text |-> <<>>]

\* no second run
NoPeer == [pc |-> "absent", output_path |-> <<>>, existed |-> FALSE]

\* no function applied
NoCall == [fn |-> "none"]

NoWindow == [alive |-> FALSE, processed_videos |-> 0, total_videos |-> 0,
             progress_var |-> 0, complete_shown |-> FALSE]

Init ==
  /\ catalog \in Catalogs
  /\ \E k \in 0..MaxPre :
       \* earlier runs left files where CatalogOne's only pair writes
       /\ k = 0 \/ catalog = CatalogOne
       /\ outFiles = PrePopulated(k)
       /\ outDirs = {<<f[1], f[2]>> : f \in PrePopulated(k)}
  /\ button = "normal"
  /\ lastClick = NoClick
  /\ main_videos = <<>>
  /\ overlay_duration = 0
  /\ total_ctas = 0
  /\ pc = "idle"
  /\ vi = 0
  /\ leaf = 0
  /\ main_aspect_ratio = <<>>
  /\ cta_video = <<>>
  /\ output_path = <<>>
  /\ queue = <<>>
  /\ window = NoWindow
  /\ reenable = FALSE
  /\ emitted = <<>>
  /\ received = <<>>
  /\ jobs = <<>>
  /\ lastEncode = NoEncode
  /\ probes = 0
  /\ peer = NoPeer
  /\ applied = NoCall

(***************************************************************************)
(* main.py: run_process, on the Tk main thread.  A behaviour follows the   *)
(* window from its construction through its first batch run (pc = "idle"   *)
(* until that run starts); what earlier runs left in the output tree is    *)
(* covered by the pre-populated output folders of Init.                    *)
(***************************************************************************)
\* the lists filedialog.askopenfilenames can return: distinct files
Selections ==
  {sel \in UNION {[1..n -> VideoFiles] : n \in 0..MaxVideos} :
     \A i, j \in 1..Len(sel) : i # j => sel[i] # sel[j]}

DurationTexts == {<<"4">>, <<>>, <<"x">>}

\* run_process: validation failed, messagebox.showerror and return
RunProcessError(selection, cta_folder, output_folder, text) ==
  /\ button = "normal"
  /\ pc = "idle"
  /\ \/ ~parses(text)
     \/ selection = <<>> \/ ~cta_folder \/ ~output_folder
  /\ lastClick' = [result |-> "error", selected |-> Len(selection),
                   cta_folder |-> cta_folder, output_folder |-> output_folder,
                   text |-> text]
  /\ UNCHANGED <<fsVars, button, reenable, argVars, pc, loopVars, queue,
                 sinkVars, emitted, jobs, lastEncode, probes, sideVars>>

\* variant: run_process starts the thread without looking at the selection and
\* the folders
RunProcessStart_unvalidated(selection, cta_folder, output_folder, text) ==
  /\ button = "normal"
  /\ pc = "idle"
  /\ parses(text)
  /\ main_videos' = selection
  /\ overlay_duration' = number(text)
  /\ total_ctas' = count_ctas(subdirs(catalog))
  /\ queue' = <<>>
  /\ window' = [alive |-> TRUE, processed_videos |-> 0, total_videos |-> 0,
                progress_var |-> 0, complete_shown |-> FALSE]
  /\ button' = "disabled"
  /\ lastClick' = [result |-> "started", selected |-> Len(selection),
                   cta_folder |-> cta_folder, output_folder |-> output_folder,
                   text |-> text]
  /\ pc' = "thread"
  /\ emitted' = <<>>
  /\ received' = <<>>
  /\ jobs' = <<>>
  /\ lastEncode' = NoEncode
  /\ probes' = 0
  /\ UNCHANGED <<fsVars, reenable, loopVars, sideVars>>

\* run_process: count the CTA folders, open the ProgressWindow, start the thread
RunProcessStart(selection, cta_folder, output_folder, text) ==
  /\ button = "normal"
  /\ pc = "idle"
  /\ parses(text)
  /\ selection # <<>> /\ cta_folder /\ output_folder
  /\ main_videos' = selection
  /\ overlay_duration' = number(text)
  /\ total_ctas' = count_ctas(subdirs(catalog))
  /\ queue' = <<>>
  /\ window' = [alive |-> TRUE, processed_videos |-> 0, total_videos |-> 0,
                progress_var |-> 0, complete_shown |-> FALSE]
  /\ button' = "disabled"
  /\ lastClick' = [result |-> "started", selected |-> Len(selection),
                   cta_folder |-> cta_folder, output_folder |-> output_folder,
                   text |-> text]
  /\ pc' = "thread"
  /\ emitted' = <<>>
  /\ received' = <<>>
  /\ jobs' = <<>>
  /\ lastEncode' = NoEncode
  /\ probes' = 0
  /\ UNCHANGED <<fsVars, reenable, loopVars, sideVars>>

RunProcess ==
  \E selection \in Selections, cta_folder \in BOOLEAN, output_folder \in BOOLEAN,
     text \in DurationTexts :
       \/ RunProcessError(selection, cta_folder, output_folder, text)
       \/ RunProcessStart(selection, cta_folder, output_folder, text)

\* _reenable, scheduled by process_thread
Reenable ==
  /\ reenable
  /\ reenable' = FALSE
  /\ button' = "normal"
  /\ UNCHANGED <<fsVars, lastClick, argVars, pc, loopVars, queue, sinkVars,
                 emitted, jobs, lastEncode, probes, sideVars>>

(***************************************************************************)
(* main.py: process_thread, and video_processor.py: process_videos, on the *)
(* worker thread                                                           *)
(***************************************************************************)
\* languages = [d for d in os.listdir(cta_base_folder) if isdir]
languages == subdirs(catalog)

Leaves == leaf_folders(languages)

\* progress_queue.put(m); item is the (main video, leaf folder) it reports
put(m, item) ==
  /\ queue' = Append(queue, m)
  /\ emitted' = Append(emitted, [msg |-> m, item |-> item])

\* variant: process_videos was given no progress_callback
progress_callback_none(item) == UNCHANGED <<queue, emitted>>

\* progress_callback()
progress_callback(item) == put(StrMsg("progress"), item)

\* the end of the body of `for cta_name in ctas`: next pair, next language or
\* next main video
NextItem ==
  IF leaf < Len(Leaves)
  THEN /\ leaf' = leaf + 1
       /\ pc' = "item"
       /\ vi' = vi
  ELSE /\ leaf' = leaf
       /\ pc' = "video"
       /\ vi' = vi + 1

\* variant: the thread starts process_videos without putting the total
ProcessThread_without_total ==
  /\ pc = "thread"
  /\ vi' = 1
  /\ pc' = "video"
  /\ UNCHANGED <<fsVars, uiVars, argVars, leaf, main_aspect_ratio, cta_video,
                 output_path, queue, emitted, sinkVars, jobs, lastEncode, probes, sideVars>>

\* process_thread up to the call of process_videos: put the total
ProcessThread ==
  /\ pc = "thread"
  /\ put(IntMsg(Len(main_videos) * total_ctas), <<0, 0>>)
  /\ vi' = 1
  /\ pc' = "video"
  /\ UNCHANGED <<fsVars, uiVars, argVars, leaf, main_aspect_ratio, cta_video,
                 output_path, sinkVars, jobs, lastEncode, probes, sideVars>>

\* the head of `for main_video in main_videos`: probe the main video
ProbeMainVideo ==
  /\ pc = "video"
  /\ vi <= Len(main_videos)
  /\ LET info == get_video_info(main_videos[vi].probe_out)
     IN  IF info = None
         THEN \* logging.error, one progress_callback(), continue
              /\ progress_callback(<<vi, 0>>)
              /\ vi' = vi + 1
              /\ UNCHANGED <<pc, leaf, main_aspect_ratio>>
         ELSE IF calculate_aspect_ratio(info[1], info[2]) = ZeroDivisionError
         THEN \* the exception leaves process_videos and ends the thread
              /\ pc' = "crashed"
              /\ UNCHANGED <<queue, emitted, vi, leaf, main_aspect_ratio>>
         ELSE /\ main_aspect_ratio' = calculate_aspect_ratio(info[1], info[2])
              /\ UNCHANGED <<queue, emitted>>
              /\ IF Leaves = <<>>
                 THEN vi' = vi + 1 /\ UNCHANGED <<pc, leaf>>
                 ELSE leaf' = 1 /\ pc' = "item" /\ vi' = vi
  /\ probes' = 1
  /\ UNCHANGED <<fsVars, uiVars, argVars, cta_video, output_path, sinkVars, jobs,
                 lastEncode, sideVars>>

\* variant: the counter is appended after the extension
next_candidate_after_ext(new_filename, counter) ==
  new_filename \o <<"_">> \o str(counter)

\* the candidate the collision loop tries after new_filename
next_candidate(new_filename, counter) ==
  splitext(new_filename)[1] \o <<"_">> \o str(counter) \o mp4

\* variant: the loop gives up after two candidates
RECURSIVE resolve_collisions_capped(_, _, _, _)
resolve_collisions_capped(folder, new_filename, counter, existing) ==
  IF <<folder[1], folder[2], new_filename>> \notin existing \/ counter > 2
  THEN [new_filename |-> new_filename, counter |-> counter]
  ELSE resolve_collisions_capped(folder, next_candidate(new_filename, counter),
                                 counter + 1, existing)

\* variant: the first name is used without looking at the folder
resolve_collisions_unchecked(folder, new_filename, counter, existing) ==
  [new_filename |-> new_filename, counter |-> counter]

\* counter = 1; while os.path.exists(output_path): ...
RECURSIVE resolve_collisions(_, _, _, _)
resolve_collisions(folder, new_filename, counter, existing) ==
  IF <<folder[1], folder[2], new_filename>> \notin existing
  THEN [new_filename |-> new_filename, counter |-> counter]
  ELSE resolve_collisions(folder, next_candidate(new_filename, counter), counter + 1,
                          existing)

\* base_name = os.path.splitext(os.path.basename(main_video))[0]
base_name_of(main_video) == splitext(basename(main_video.path))[1]

\* the name generate_new_filename gives the current item
new_filename_of(main_video, folder, aspect_ratio) ==
  generate_new_filename(base_name_of(main_video), lang_code_of(folder.language),
                        cta_code_of(folder.cta_name), aspect_ratio)

\* the body of `for cta_name in ctas` up to the call of
\* replace_end_of_video_keep_audio
MatchItem ==
  /\ pc = "item"
  /\ LET folder == Leaves[leaf]
         found  == find_cta_video(folder.files, folder.cta_name, main_aspect_ratio)
     IN  IF found = None
         THEN \* logging.warning, progress_callback(), continue
              /\ progress_callback(<<vi, leaf>>)
              /\ NextItem
              /\ UNCHANGED <<outDirs, cta_video, output_path>>
         ELSE LET dir  == <<folder.language, folder.cta_name>>
                  name == resolve_collisions(
                            dir, new_filename_of(main_videos[vi], folder, main_aspect_ratio),
                            1, outFiles).new_filename
              IN  /\ cta_video' = <<folder.language, folder.cta_name, found>>
                  /\ outDirs' = outDirs \cup {dir}
                  /\ output_path' = <<dir[1], dir[2], name>>
                  /\ pc' = "encode"
                  /\ UNCHANGED <<queue, emitted, vi, leaf>>
  /\ UNCHANGED <<catalog, outFiles, uiVars, argVars, main_aspect_ratio, sinkVars, jobs,
                 lastEncode, probes, sideVars>>

\* what ffprobe prints for format=duration
DurationOutputs == {CalledProcessError, <<"N","/","A">>, <<"3","0">>}

\* what ffprobe prints for the stream entries of a main video when
\* replace_end_of_video_keep_audio asks again: the same as at the head of the
\* loop, or an error if the file has become unreadable since
ProbeOutputs(main_video) == {main_video.probe_out, CalledProcessError}

\* replace_end_of_video_keep_audio, then progress_callback()
Encode ==
  /\ pc = "encode"
  /\ jobs' = Append(jobs, [path |-> output_path, existed |-> output_path \in outFiles,
                           video |-> vi, leaf |-> leaf])
  /\ \E duration_out \in DurationOutputs :
       IF duration_out = CalledProcessError \/ ~parses(duration_out)
       THEN \* logging.error, return
            /\ lastEncode' = [path |-> output_path, probed |-> FALSE, ran |-> FALSE,
                              returncode |-> 0,
                              exists_after |-> output_path \in outFiles,
                              logged |-> "error"]
            /\ UNCHANGED <<outFiles, probes>>
       ELSE \* main_width, main_height, framerate = get_video_info(input_video)
            /\ probes' = probes + 1
            /\ \E probe_out \in ProbeOutputs(main_videos[vi]) :
                 IF get_video_info(probe_out) = None
                 THEN \* logging.error, return
                      /\ lastEncode' = [path |-> output_path, probed |-> TRUE,
                                        ran |-> FALSE, returncode |-> 0,
                                        exists_after |-> output_path \in outFiles,
                                        logged |-> "error"]
                      /\ UNCHANGED outFiles
                 ELSE \* subprocess.run(ffmpeg_cmd): the engine's exit status, and
                      \* whether it left a (complete or partial) file at
                      \* output_video
                      \E returncode \in {0, 1}, wrote \in BOOLEAN :
                        /\ outFiles' = IF wrote THEN outFiles \cup {output_path}
                                       ELSE outFiles
                        /\ lastEncode' = [path |-> output_path, probed |-> TRUE,
                                          ran |-> TRUE, returncode |-> returncode,
                                          exists_after |-> output_path \in outFiles',
                                          logged |-> IF output_path \notin outFiles'
                                                     THEN "error" ELSE "info"]
  /\ progress_callback(<<vi, leaf>>)
  /\ NextItem
  /\ UNCHANGED <<catalog, outDirs, uiVars, argVars, main_aspect_ratio, cta_video,
                 output_path, sinkVars, sideVars>>

\* process_videos returns; process_thread puts "done" and schedules _reenable
ProcessThreadDone ==
  /\ pc = "video"
  /\ vi > Len(main_videos)
  /\ put(StrMsg("done"), <<0, 0>>)
  /\ reenable' = TRUE
  /\ pc' = "finished"
  /\ UNCHANGED <<fsVars, button, lastClick, argVars, loopVars, sinkVars, jobs,
                 lastEncode, probes, sideVars>>

(***************************************************************************)
(* main.py: ProgressWindow.check_queue, on the Tk main thread              *)
(***************************************************************************)
\* update_progress
update_progress(w, value, total) ==
  IF total > 0 THEN [w EXCEPT !.progress_var = (value * 100) \div total] ELSE w

\* check_queue with a message waiting (an empty queue only re-arms the timer)
CheckQueue ==
  /\ window.alive
  /\ queue # <<>>
  /\ LET message == Head(queue)
     IN  /\ queue' = Tail(queue)
         /\ received' = Append(received, message)
         /\ window' =
              IF ~message.isint /\ message.text = "done"
              THEN [window EXCEPT !.alive = FALSE, !.complete_shown = TRUE]
              ELSE IF message.isint
              THEN [window EXCEPT !.total_videos = message.value]
              ELSE update_progress(
                     [window EXCEPT !.processed_videos = window.processed_videos + 1],
                     window.processed_videos + 1, window.total_videos)
  /\ UNCHANGED <<fsVars, uiVars, argVars, pc, loopVars, emitted, jobs, lastEncode, probes, sideVars>>

Next ==
  \/ RunProcess
  \/ Reenable
  \/ ProcessThread
  \/ ProbeMainVideo
  \/ MatchItem
  \/ Encode
  \/ ProcessThreadDone
  \/ CheckQueue

Spec == Init /\ [][Next]_vars

(***************************************************************************)
(* video_processor.py: process_videos called a second time, by another     *)
(* instance of the program, for one main video and the same CTA and output *)
(* folders, while the window's own run goes on                             *)
(***************************************************************************)
ConcInit ==
  /\ Init
  /\ catalog = CatalogOne

\* the other instance starts its run
PeerStart ==
  /\ peer.pc = "absent"
  /\ peer' = [peer EXCEPT !.pc = "item"]
  /\ UNCHANGED <<fsVars, uiVars, argVars, pc, loopVars, queue, sinkVars, emitted,
                 jobs, lastEncode, probes, applied>>

\* the main video of the second run
PeerVideo == VidPromo1

\* the second run: the body of `for cta_name in ctas` up to the call of
\* replace_end_of_video_keep_audio, for its main video and the first pair
PeerMatchItem ==
  /\ peer.pc = "item"
  /\ LET folder == Leaves[1]
         info   == get_video_info(PeerVideo.probe_out)
         ratio  == calculate_aspect_ratio(info[1], info[2])
         found  == find_cta_video(folder.files, folder.cta_name, ratio)
         dir    == <<folder.language, folder.cta_name>>
         name   == resolve_collisions(dir, new_filename_of(PeerVideo, folder, ratio),
                                      1, outFiles).new_filename
     IN  /\ found # None
         /\ outDirs' = outDirs \cup {dir}
         /\ peer' = [peer EXCEPT !.pc = "encode",
                                 !.output_path = <<dir[1], dir[2], name>>]
  /\ UNCHANGED <<catalog, outFiles, uiVars, argVars, pc, loopVars, queue, sinkVars,
                 emitted, jobs, lastEncode, probes, applied>>

\* the second run: subprocess.run(['ffmpeg', '-y', ..., output_video])
PeerEncode ==
  /\ peer.pc = "encode"
  /\ \E wrote \in BOOLEAN :
       outFiles' = IF wrote THEN outFiles \cup {peer.output_path} ELSE outFiles
  /\ peer' = [peer EXCEPT !.pc = "done", !.existed = peer.output_path \in outFiles]
  /\ UNCHANGED <<catalog, outDirs, uiVars, argVars, pc, loopVars, queue, sinkVars,
                 emitted, jobs, lastEncode, probes, applied>>

ConcNext ==
  \/ Next
  \/ PeerStart
  \/ PeerMatchItem
  \/ PeerEncode

ConcSpec == ConcInit /\ [][ConcNext]_vars

(***************************************************************************)
(* video_processor.py: the functions on their own.  A behaviour applies    *)
(* one function to one choice of arguments; the window stays idle.         *)
(***************************************************************************)
FunctionInit ==
  /\ catalog = CatalogEmpty
  /\ outFiles = {}
  /\ outDirs = {}
  /\ button = "normal"
  /\ lastClick = NoClick
  /\ main_videos = <<>>
  /\ overlay_duration = 0
  /\ total_ctas = 0
  /\ pc = "idle"
  /\ vi = 0
  /\ leaf = 0
  /\ main_aspect_ratio = <<>>
  /\ cta_video = <<>>
  /\ output_path = <<>>
  /\ queue = <<>>
  /\ window = NoWindow
  /\ reenable = FALSE
  /\ emitted = <<>>
  /\ received = <<>>
  /\ jobs = <<>>
  /\ lastEncode = NoEncode
  /\ probes = 0
  /\ peer = NoPeer
  /\ applied = NoCall

\* calculate_aspect_ratio(width, height)
ApplyAspectRatio ==
  /\ applied = NoCall
  /\ \E width \in 1..MaxDim, height \in 1..MaxDim :
       applied' = [fn |-> "calculate_aspect_ratio", width |-> width,
                   height |-> height,
                   result |-> calculate_aspect_ratio(width, height)]
  /\ UNCHANGED windowVars

\* the '_'-separated segments base names are made of
BaseSegments ==
  {<<"p","r","o","m","o">>, <<"3","0","s">>, <<"1","0","s">>, <<"s">>,
   <<"D","N">>, <<"v","1">>, <<"1","6","x","9">>, <<"w","?","t">>, <<"x">>}

BaseNames ==
  {join(segments, <<"_">>) :
     segments \in UNION {[1..n -> BaseSegments] : n \in 1..MaxSegments}}

AspectRatios == {<<"1","6",":","9">>, <<"9",":","1","6">>}

\* generate_new_filename(base_name, lang_code, cta_code, aspect_ratio)
ApplyNewFilename ==
  /\ applied = NoCall
  /\ \E base_name \in BaseNames, aspect_ratio \in AspectRatios :
       LET lang_code == lang_code_of(english)
           cta_code  == cta_code_of(Learn_More)
       IN  applied' = [fn |-> "generate_new_filename", base_name |-> base_name,
                       lang_code |-> lang_code, cta_code |-> cta_code,
                       aspect_ratio |-> aspect_ratio,
                       result |-> generate_new_filename(base_name, lang_code,
                                                        cta_code, aspect_ratio)]
  /\ UNCHANGED windowVars

\* the n-th name the collision loop derives from SeedName
RECURSIVE Chain(_)
Chain(n) == IF n = 0 THEN SeedName ELSE next_candidate(Chain(n - 1), n)

\* names an output folder can hold: the loop's candidates and two others
CollisionPool ==
  {Chain(n) : n \in 0..MaxChain} \cup {Suffixed(SeedName, 2), notes_txt}

\* the collision loop of process_videos for SeedName in english/learn_more
ApplyCollisionLoop ==
  /\ applied = NoCall
  /\ \E names \in SUBSET CollisionPool :
       LET folder   == <<english, learn_more>>
           existing == {<<folder[1], folder[2], name>> : name \in names}
       IN  applied' = [fn |-> "resolve_collisions", folder |-> folder,
                       new_filename |-> SeedName, existing |-> existing,
                       result |-> resolve_collisions(folder, SeedName, 1, existing)]
  /\ UNCHANGED windowVars

\* what float(duration_out) is for a short and for a long main video
Durations == {3, 30}

\* the command of replace_end_of_video_keep_audio, with and without use_gpu
ApplyCommand ==
  /\ applied = NoCall
  /\ \E main_video \in {v \in VideoFiles : get_video_info(v.probe_out) # None},
        name \in {SeedName, Suffixed(SeedName, 1)},
        seconds \in 0..MaxOverlay, duration \in Durations :
       LET info   == get_video_info(main_video.probe_out)
           cta    == join(<<english, learn_more, learn_more_16x9>>, <<"/">>)
           output == join(<<english, learn_more, name>>, <<"/">>)
       IN  applied' = [fn |-> "ffmpeg_cmd", input_video |-> main_video.path,
                       cta_video |-> cta, output_video |-> output,
                       overlay_duration |-> seconds, duration |-> duration,
                       gpu |-> ffmpeg_cmd(main_video.path, cta, output, seconds, TRUE,
                                          duration, info),
                       cpu |-> ffmpeg_cmd(main_video.path, cta, output, seconds, FALSE,
                                          duration, info)]
  /\ UNCHANGED windowVars

FunctionNext ==
  \/ ApplyAspectRatio
  \/ ApplyNewFilename
  \/ ApplyCollisionLoop
  \/ ApplyCommand

FunctionSpec == FunctionInit /\ [][FunctionNext]_vars

(***************************************************************************)
(* Properties                                                              *)
(***************************************************************************)
IsProgress(m) == ~m.isint /\ m.text = "progress"

IsDone(m) == ~m.isint /\ m.text = "done"

ProgressCount == Cardinality({i \in 1..Len(emitted) : IsProgress(emitted[i].msg)})

DoneCount == Cardinality({i \in 1..Len(emitted) : IsDone(emitted[i].msg)})

\* the aspect ratio process_videos computes for a probed main video
aspect_ratio_of(main_video) ==
  LET info == get_video_info(main_video.probe_out)
  IN  calculate_aspect_ratio(info[1], info[2])

\* C1: by the end of a run the number of per-item progress signals equals
\* (number of main videos) * (number of CTA leaf folders), whatever failed.
C1_ProgressCountIsVideosTimesLeaves ==
  pc = "finished" => ProgressCount = Len(main_videos) * Len(Leaves)

\* the file names present in the output folder of the current item
FolderNames(dir) == {f[3] : f \in {g \in outFiles : g[1] = dir[1] /\ g[2] = dir[2]}}

\* C2: when the output folder holds exactly base.mp4, base_1.mp4 ..
\* base_(k-1).mp4, the naming step selects base_k.mp4, for every k >= 1.
C2_CollisionSelectsBaseK ==
  pc = "encode" =>
    LET folder == Leaves[leaf]
        base   == new_filename_of(main_videos[vi], folder, main_aspect_ratio)
    IN  \A k \in 1..(MaxPre + MaxVideos) :
          FolderNames(<<folder.language, folder.cta_name>>)
             = {base} \cup {Suffixed(base, i) : i \in 1..(k - 1)}
          => output_path[3] = Suffixed(base, k)

\* C3: the output path handed to an encode job never names a file that
\* exists when the job is started.
C3_JobPathNeverExists ==
  /\ \A i \in 1..Len(jobs) : ~jobs[i].existed
  /\ pc = "encode" => output_path \notin outFiles

\* C3 witness: a job was started after collision resolution moved away from
\* a name that was taken.
C3_Witness ==
  \E i \in 1..Len(jobs) :
    /\ <<jobs[i].path[1], jobs[i].path[2],
         new_filename_of(main_videos[jobs[i].video], Leaves[jobs[i].leaf],
                         aspect_ratio_of(main_videos[jobs[i].video]))>> \in outFiles
    /\ jobs[i].path[3] #
         new_filename_of(main_videos[jobs[i].video], Leaves[jobs[i].leaf],
                         aspect_ratio_of(main_videos[jobs[i].video]))

\* C4: within a run no two encode jobs are given the same output path,
\* whatever the earlier encodes did.
C4_JobPathsDistinct ==
  \A i, j \in 1..Len(jobs) : i # j => jobs[i].path # jobs[j].path

promo_EN_LM_30s_16x9 ==
  <<"p","r","o","m","o","_","E","N","_","L","M","_","3","0","s","_","1","6","x","9",".","m","p","4">>

\* C5: main video promo_30s_DN_v1 (1920x1080) against
\* english/learn_more/learn_more_16x9.mp4 and an empty output tree gives
\* exactly one output, english/learn_more/promo_EN_LM_30s_16x9.mp4.
C5_ScenarioOutputName ==
  ( /\ pc = "finished"
    /\ catalog = CatalogOne
    /\ main_videos = <<VidPromo1>>
    /\ outFiles \subseteq {jobs[i].path : i \in 1..Len(jobs)} )
  => /\ Len(jobs) = 1
     /\ jobs[1].path = <<english, learn_more, promo_EN_LM_30s_16x9>>

\* lexicographic order of the items <<main video, leaf folder>>
ItemBefore(a, b) == a[1] < b[1] \/ (a[1] = b[1] /\ a[2] < b[2])

\* C6: exactly one total-count signal, before every per-item signal; per-item
\* signals in the order the items are processed, and delivered to the sink in
\* that order; "done", when emitted, after every per-item signal and last.
C6_SignalOrder ==
  /\ pc \in {"idle", "thread"} => emitted = <<>>
  /\ pc \notin {"idle", "thread"} =>
       /\ Len(emitted) >= 1
       /\ emitted[1].msg.isint
       /\ \A i \in 2..Len(emitted) : ~emitted[i].msg.isint
  /\ \A i, j \in 1..Len(emitted) :
       (i < j /\ IsProgress(emitted[i].msg) /\ IsProgress(emitted[j].msg))
       => ItemBefore(emitted[i].item, emitted[j].item)
  /\ \A i \in 1..Len(emitted) : IsDone(emitted[i].msg) => i = Len(emitted)
  /\ received \o queue = [i \in 1..Len(emitted) |-> emitted[i].msg]

\* C6 witness: a finished run with several per-item signals, all delivered.
C6_Witness ==
  /\ pc = "finished"
  /\ ProgressCount >= 2
  /\ queue = <<>>
  /\ Len(received) = Len(emitted)

\* C7: every started run emits "done" exactly once, whatever probes, matches
\* and encodes fail (0x0 probe results included); stated on the run's final
\* state: a worker thread that has ended has put "done" exactly once.
C7_EndedRunEmittedDone == pc \in {"finished", "crashed"} => DoneCount = 1

\* "_<w>x<h>.mp4" for a ratio "w:h"
RatioSuffix(ratio) == <<"_">> \o replace(ratio, ":", <<"x">>) \o mp4

\* no file of the folder carries the ratio's suffix
NoFileForRatio(files, ratio) ==
  \A i \in 1..Len(files) : ~endswith(lower(files[i]), RatioSuffix(ratio))

ProbedOk(main_video) ==
  /\ get_video_info(main_video.probe_out) # None
  /\ aspect_ratio_of(main_video) # ZeroDivisionError

\* a (main video, leaf folder) pair whose folder has no file for the ratio
IsMiss(v, l) ==
  /\ ProbedOk(main_videos[v])
  /\ NoFileForRatio(Leaves[l].files, aspect_ratio_of(main_videos[v]))

\* C8: for a probed main video and a leaf folder with no file of its ratio
\* the worker starts no encode and writes no file, emits exactly one
\* progress signal for the pair, and goes on to the next pair.
C8_MatchMiss ==
  /\ [](\A v \in 1..Len(main_videos), l \in 1..Len(Leaves) :
          IsMiss(v, l) =>
            /\ \A i \in 1..Len(jobs) : ~(jobs[i].video = v /\ jobs[i].leaf = l)
            /\ Cardinality({i \in 1..Len(emitted) : emitted[i].item = <<v, l>>}) <= 1)
  /\ [][(/\ pc = "item"
         /\ IsMiss(vi, leaf)
         /\ <<pc, vi, leaf>>' # <<pc, vi, leaf>>)
        => /\ jobs' = jobs
           /\ outFiles' = outFiles
           /\ emitted' = Append(emitted, [msg |-> StrMsg("progress"), item |-> <<vi, leaf>>])
           /\ \/ pc' = "item" /\ vi' = vi /\ leaf' = leaf + 1
              \/ pc' = "video" /\ vi' = vi + 1 /\ leaf = Len(Leaves)]_vars

\* C8 witness: a miss has been reported and the worker has gone on to a
\* later pair of the same main video.
C8_Witness ==
  /\ pc \in {"item", "encode"}
  /\ leaf >= 2
  /\ IsMiss(vi, 1)
  /\ \E i \in 1..Len(emitted) : emitted[i].item = <<vi, 1>>

\* lower-cased with spaces removed
Stripped(s) == replace(lower(s), " ", <<>>)

\* the test the claim states: both conditions on the stripped name
ClaimedMatch(file, cta_name, ratio) ==
  /\ endswith(Stripped(file), RatioSuffix(ratio))
  /\ contains(Stripped(file), Stripped(cta_name))

\* the test as amended: the suffix is compared on the lower-cased name with
\* its whitespace kept, the CTA name on the stripped name
AmendedMatch(file, cta_name, ratio) ==
  /\ endswith(lower(file), RatioSuffix(ratio))
  /\ contains(Stripped(file), Stripped(cta_name))

C10_EncodeOutcomeClassified ==
  lastEncode.ran =>
    /\ (lastEncode.returncode # 0 \/ ~lastEncode.exists_after)
         => lastEncode.logged = "error"
    /\ lastEncode.logged = "info"
         => (lastEncode.returncode = 0 /\ lastEncode.exists_after)


\* C11: each main video is probed for its stream properties at most once per
\* batch run, however many (language, CTA) pairs are processed for it
C11_ProbedAtMostOnce == probes <= 1

\* the name generate_new_filename derives for main video v in leaf folder l
DerivedName(v, l) ==
  new_filename_of(main_videos[v], Leaves[l], aspect_ratio_of(main_videos[v]))

\* job i of this run is an earlier output of another main video for the pair
\* being named now, with the same derived name, and its encode left its file
IsFirstOfPending(i) ==
  /\ jobs[i].leaf = leaf
  /\ jobs[i].video # vi
  /\ DerivedName(jobs[i].video, leaf) = DerivedName(vi, leaf)
  /\ jobs[i].path \in outFiles

\* C12 as claimed: of two main videos with the same derived output name in the
\* same (language, CTA) folder, the second output's name is the first output's
\* name with "_1" inserted before the extension
C12_SecondIsFirstWith1 ==
  pc = "encode" =>
    \A i \in 1..Len(jobs) :
      IsFirstOfPending(i) => output_path[3] = Suffixed(jobs[i].path[3], 1)

\* C12 amended: when the first output took the derived name itself and the
\* folder holds no file of that name with "_1", the second output's name is
\* the derived name with "_1" inserted before the extension
C12_SecondIsDerivedWith1 ==
  pc = "encode" =>
    \A i \in 1..Len(jobs) :
      ( /\ IsFirstOfPending(i)
        /\ jobs[i].path[3] = DerivedName(vi, leaf)
        /\ <<output_path[1], output_path[2], Suffixed(DerivedName(vi, leaf), 1)>>
             \notin outFiles )
      => output_path[3] = Suffixed(jobs[i].path[3], 1)

C12_Witness ==
  /\ pc = "encode"
  /\ \E i \in 1..Len(jobs) :
       /\ IsFirstOfPending(i)
       /\ jobs[i].path[3] = DerivedName(vi, leaf)
       /\ output_path[3] = Suffixed(DerivedName(vi, leaf), 1)

\* the inputs of a run_process call are a configuration error
ConfigError(click) ==
  \/ click.selected = 0
  \/ ~click.cta_folder
  \/ ~click.output_folder
  \/ ~parses(click.text)

\* C13: a run_process call with no main videos, no CTA folder, no output
\* folder or a non-numeric overlay duration is answered with an error and
\* nothing else: no worker, no window, no message, no probe, no encode
C13_ConfigErrorBeforeBatchWork ==
  [][ (lastClick' # lastClick /\ ConfigError(lastClick'))
        => /\ lastClick'.result = "error"
           /\ pc = "idle" /\ pc' = "idle"
           /\ queue' = <<>> /\ emitted' = <<>> /\ received' = <<>>
           /\ ~window'.alive
           /\ jobs' = <<>> /\ probes' = 0 /\ lastEncode' = NoEncode
           /\ UNCHANGED <<fsVars, button, argVars>> ]_vars

C13_Witness ==
  /\ lastClick.result = "error"
  /\ lastClick.selected > 0 /\ lastClick.cta_folder /\ lastClick.output_folder
  /\ ~parses(lastClick.text)
  /\ pc = "idle" /\ emitted = <<>> /\ jobs = <<>>

\* d divides n
Divides(d, n) == n % d = 0

\* the greatest common divisor of two positive integers, by its definition
GreatestCommonDivisor(a, b) ==
  CHOOSE d \in 1..a :
    /\ Divides(d, a) /\ Divides(d, b)
    /\ \A e \in 1..a : (Divides(e, a) /\ Divides(e, b)) => e <= d

\* the pair of numbers an aspect ratio "w:h" names
RatioPair(ratio) ==
  LET parts == split(ratio, ":") IN <<number(parts[1]), number(parts[2])>>

\* C14: for positive w, h with g = gcd(w, h), calculate_aspect_ratio(w, h) is
\* the pair (w/g, h/g), the pair is in lowest terms, and reducing it again
\* returns the same pair
C14_AspectRatioLowestTerms ==
  applied.fn = "calculate_aspect_ratio" =>
    LET g    == GreatestCommonDivisor(applied.width, applied.height)
        pair == RatioPair(applied.result)
    IN  /\ Len(split(applied.result, ":")) = 2
        /\ pair = <<applied.width \div g, applied.height \div g>>
        /\ GreatestCommonDivisor(pair[1], pair[2]) = 1
        /\ calculate_aspect_ratio(pair[1], pair[2]) = applied.result

C14_Witness ==
  /\ applied.fn = "calculate_aspect_ratio"
  /\ applied.width = 12 /\ applied.height = 8
  /\ applied.result = <<"3", ":", "2">>

\* a segment at which the scan of the base name stops
IsStop(seg) == seg \in {<<"D","N">>, <<"M","N">>, <<"S","N">>, <<"P","N">>} \/ Len(seg) = 2

\* the number of segments before the first stop: the 0-based cutoff index
RECURSIVE Cutoff(_)
Cutoff(segs) ==
  IF segs = <<>> \/ IsStop(Head(segs)) THEN 0 ELSE 1 + Cutoff(Tail(segs))

\* a segment of the form <digits>s
IsDurationMarker(seg) ==
  /\ Len(seg) >= 2
  /\ seg[Len(seg)] = "s"
  /\ \A i \in 1..(Len(seg) - 1) : seg[i] \in {"0","1","2","3","4","5","6","7","8","9"}

\* the last duration marker among segs, or <<>> when there is none
RECURSIVE LastMarker(_)
LastMarker(segs) ==
  IF segs = <<>> THEN <<>>
  ELSE IF IsDurationMarker(segs[Len(segs)]) THEN <<segs[Len(segs)]>>
  ELSE LastMarker(SubSeq(segs, 1, Len(segs) - 1))

\* seg, with each 'x' read as ':', is the ratio
Encodes(seg, ratio) == [i \in 1..Len(seg) |-> IF seg[i] = "x" THEN ":" ELSE seg[i]] = ratio

\* the ratio "w:h" as the token "wxh"
RatioToken(ratio) == [i \in 1..Len(ratio) |-> IF ratio[i] = ":" THEN "x" ELSE ratio[i]]

RECURSIVE JoinedBy_(_)
JoinedBy_(segs) ==
  IF Len(segs) = 1 THEN segs[1] ELSE segs[1] \o <<"_">> \o JoinedBy_(Tail(segs))

\* the name the stated algorithm assembles
AssembledName(base_name, lang_code, cta_code, aspect_ratio) ==
  LET segs   == split(base_name, "_")
      kept   == SubSeq(segs, 1, Cutoff(segs))
      coded  == kept \o <<lang_code, cta_code>> \o LastMarker(kept)
      tokens == IF \E i \in 1..Len(coded) : Encodes(coded[i], aspect_ratio)
                THEN coded ELSE Append(coded, RatioToken(aspect_ratio))
  IN  JoinedBy_(tokens) \o <<".","m","p","4">>

\* a name without the characters < > : " / \ | ? *
Stripped_(name) ==
  SelectSeq(name, LAMBDA c : c \notin {"<", ">", ":", "\"", "/", "\\", "|", "?", "*"})

\* C15 as claimed: for every base name generate_new_filename returns the kept
\* segments, langCode, ctaCode, the last duration marker before the cutoff if
\* any, and the ratio token unless a segment encodes the ratio, joined by '_'
\* and followed by ".mp4"
C15_NameIsAssembled ==
  applied.fn = "generate_new_filename" =>
    applied.result = AssembledName(applied.base_name, applied.lang_code,
                                   applied.cta_code, applied.aspect_ratio)

\* C15 amended: generate_new_filename returns that assembled name with the
\* characters < > : " / \ | ? * removed from it
C15_NameIsAssembledAndSanitized ==
  applied.fn = "generate_new_filename" =>
    applied.result = Stripped_(AssembledName(applied.base_name, applied.lang_code,
                                             applied.cta_code, applied.aspect_ratio))

C15_Witness ==
  /\ applied.fn = "generate_new_filename"
  /\ applied.base_name = <<"w","?","t","_","3","0","s","_","1","0","s">>
  /\ applied.aspect_ratio = <<"1","6",":","9">>
  /\ applied.result = <<"w","t","_","3","0","s","_","1","0","s","_","E","N","_",
                        "L","M","_","1","0","s","_","1","6","x","9",".","m","p","4">>

\* the progress signals emitted for the pair (v, l)
SignalsFor(v, l) ==
  {k \in 1..Len(emitted) : IsProgress(emitted[k].msg) /\ emitted[k].item = <<v, l>>}

\* the encode calls made for the pair (v, l)
JobsFor(v, l) == {i \in 1..Len(jobs) : jobs[i].video = v /\ jobs[i].leaf = l}

\* C16: for a probed main video and a leaf folder with a matching CTA file the
\* encode is invoked at most once and is followed by exactly one progress
\* signal, whether the encode ran, failed or was abandoned at one of its
\* probes; the loop then moves to the next pair
C16_OneEncodeOneSignal ==
  /\ [](/\ pc = "encode" => (JobsFor(vi, leaf) = {} /\ SignalsFor(vi, leaf) = {})
        /\ \A i \in 1..Len(jobs) :
             /\ Cardinality(JobsFor(jobs[i].video, jobs[i].leaf)) = 1
             /\ Cardinality(SignalsFor(jobs[i].video, jobs[i].leaf)) = 1)
  /\ [][ (pc = "encode" /\ pc' # "encode")
           => /\ Len(jobs') = Len(jobs) + 1
              /\ SubSeq(jobs', 1, Len(jobs)) = jobs
              /\ jobs'[Len(jobs')].video = vi /\ jobs'[Len(jobs')].leaf = leaf
              /\ Len(emitted') = Len(emitted) + 1
              /\ SubSeq(emitted', 1, Len(emitted)) = emitted
              /\ IsProgress(emitted'[Len(emitted')].msg)
              /\ emitted'[Len(emitted')].item = <<vi, leaf>>
              /\ IF leaf < Len(Leaves)
                 THEN pc' = "item" /\ vi' = vi /\ leaf' = leaf + 1
                 ELSE pc' = "video" /\ vi' = vi + 1 ]_vars

\* an encode abandoned at its stream probe, with its progress signal emitted
C16_Witness ==
  /\ jobs # <<>>
  /\ lastEncode.probed /\ ~lastEncode.ran
  /\ lastEncode.path = jobs[Len(jobs)].path
  /\ Cardinality(SignalsFor(jobs[Len(jobs)].video, jobs[Len(jobs)].leaf)) = 1

\* the names the collision loop tests, in order, from new_filename on
RECURSIVE Proposals(_, _, _, _)
Proposals(folder, new_filename, counter, existing) ==
  IF <<folder[1], folder[2], new_filename>> \notin existing
  THEN <<new_filename>>
  ELSE <<new_filename>>
       \o Proposals(folder, next_candidate(new_filename, counter), counter + 1, existing)

\* C17: for every finite output folder the collision loop ends, it never tests
\* the same candidate twice, it tests at most (entries of the folder) + 1
\* names, and it ends on a name the folder does not hold however many it
\* took
C17_CollisionLoopBounded ==
  applied.fn = "resolve_collisions" =>
    LET tried == Proposals(applied.folder, applied.new_filename, 1, applied.existing)
    IN  /\ \A i, j \in 1..Len(tried) : i # j => tried[i] # tried[j]
        /\ Len(tried) <= Cardinality(applied.existing) + 1
        /\ applied.result.counter = Len(tried)
        /\ applied.result.new_filename = tried[Len(tried)]
        /\ <<applied.folder[1], applied.folder[2], applied.result.new_filename>>
             \notin applied.existing

\* a folder of at least three entries, each of which the loop ran into
C17_Witness ==
  /\ applied.fn = "resolve_collisions"
  /\ Cardinality(applied.existing) >= 3
  /\ applied.result.counter = Cardinality(applied.existing) + 1

\* C18: two concurrent runs on one output tree can both hold the same path,
\* tested as non-existing by each, and both write it, so that one output is
\* overwritten; a single run never starts an encode on an existing path.
\* An encode of either run starts on an existing path only if the other run
\* wrote that path after it was chosen.
C18_OverwriteOnlyByRace ==
  /\ peer.pc = "absent" =>
       /\ pc = "encode" => output_path \notin outFiles
       /\ \A i \in 1..Len(jobs) : ~jobs[i].existed
  /\ \A i \in 1..Len(jobs) :
       jobs[i].existed => (peer.pc = "done" /\ peer.output_path = jobs[i].path)
  /\ peer.existed =>
       \E i \in 1..Len(jobs) : jobs[i].path = peer.output_path /\ ~jobs[i].existed

\* both runs hold the same path, which does not exist, and are about to encode
C18_Witness ==
  /\ pc = "encode"
  /\ peer.pc = "encode"
  /\ output_path = peer.output_path
  /\ output_path \notin outFiles

\* the options that select hardware decoding
HwAccelOptions == <<<<"-","h","w","a","c","c","e","l">>, <<"c","u","d","a">>>>

\* the option names of the video encoder, its preset and its quality
EncoderOptionNames(use_gpu) ==
  <<<<"-","c",":","v">>, <<"-","p","r","e","s","e","t">>, IF use_gpu THEN <<"-","q","p">> ELSE <<"-","c","r","f">>>>

\* cmd[from..] is an encoder, a preset and a quality option, each with a value
IsEncoderBlock(cmd, from, use_gpu) ==
  \A k \in 1..3 : cmd[from + 2 * (k - 1)] = EncoderOptionNames(use_gpu)[k]

\* C19: the command built with use_gpu and the one built without differ only
\* in the hardware-decode option and in the encoder, preset and quality
\* options: program, inputs, filter graph, stream mapping, audio copy, output
\* frame rate and output path are the same arguments in the same order
C19_GpuOnlyBranch ==
  applied.fn = "ffmpeg_cmd" =>
    LET gpu == applied.gpu
        cpu == applied.cpu
        n   == Len(cpu)
    IN  /\ Len(gpu) = n + 2
        /\ SubSeq(gpu, 1, 2) = SubSeq(cpu, 1, 2)
        /\ SubSeq(gpu, 3, 4) = HwAccelOptions
        /\ SubSeq(gpu, 5, n - 7) = SubSeq(cpu, 3, n - 9)
        /\ IsEncoderBlock(gpu, n - 6, TRUE)
        /\ IsEncoderBlock(cpu, n - 8, FALSE)
        /\ SubSeq(gpu, n, n + 2) = SubSeq(cpu, n - 2, n)
        /\ cpu[4] = applied.input_video /\ cpu[7] = applied.cta_video
        /\ cpu[8] = <<"-","f","i","l","t","e","r","_","c","o","m","p","l","e","x">>
        /\ SubSeq(cpu, 10, 15) =
             <<
               <<"-","m","a","p">>, <<"[","o","u","t","v","]">>, <<"-","m","a","p">>,
               <<"0",":","a">>, <<"-","c",":","a">>, <<"c","o","p","y">>>>
        /\ n = 24
        /\ cpu[n - 2] = <<"-","r">> /\ cpu[n] = applied.output_video

\* a command for an overlay shorter than the main video
C19_Witness ==
  /\ applied.fn = "ffmpeg_cmd"
  /\ applied.overlay_duration = 4 /\ applied.duration = 30
  /\ applied.gpu[3] = <<"-","h","w","a","c","c","e","l">>
  /\ applied.cpu[3] = <<"-","i">>
  /\ applied.gpu # applied.cpu

\* C20: in every reachable state the number of items the progress window has
\* counted is at most the total it was sent, whatever the numbers of main
\* videos and CTA leaf folders and whatever probes and matches fail
C20_ProcessedAtMostTotal ==
  window.processed_videos <= window.total_videos

====
